---- MODULE Spec2Model ----
(***************************************************************************)
(* pylibjtag.jtagcore.JTAGCore: the Python binding of the JTAG boundary    *)
(* scanner library.  Every method of the class is one action; an action    *)
(* runs the whole method: the native calls it issues, in order, the check  *)
(* of each return value, and the scan a method triggers itself.            *)
(*                                                                         *)
(* The native library (lib_jtag_core) is not part of the Python source.    *)
(* Its functions are the operators named jtagcore_*; they follow the       *)
(* engine contract of the specification.  They act on the native context   *)
(* jc, the record behind the handle self._jtag.                            *)
(***************************************************************************)
EXTENDS Integers, Sequences, FiniteSets, TLC

\* ------------------------------------------------------------- bounds
\* Longest chain a chain scan discovers.
MaxDev == 2
\* Pins of an attached descriptor.
MaxPins == 1
\* deinit() calls followed on one object.
MaxDeinit == 2

\* ---------------------------------------------------- class constants
INPUT == 1
OUTPUT == 2
TRISTATE == 4
OE == 4

JTAG_CORE_NO_ERROR == 0
JTAG_CORE_BAD_PARAMETER == -1
JTAG_CORE_ACCESS_ERROR == -2
JTAG_CORE_IO_ERROR == -3
JTAG_CORE_MEM_ERROR == -4
JTAG_CORE_NO_PROBE == -5
JTAG_CORE_NOT_FOUND == -6
JTAG_CORE_INTERNAL_ERROR == -8

error_codes ==
  [c \in -10..0 |->
     CASE c = 0 -> "JTAG_CORE_NO_ERROR"
       [] c = -1 -> "JTAG_CORE_BAD_PARAMETER"
       [] c = -2 -> "JTAG_CORE_ACCESS_ERROR"
       [] c = -3 -> "JTAG_CORE_IO_ERROR"
       [] c = -4 -> "JTAG_CORE_MEM_ERROR"
       [] c = -5 -> "JTAG_CORE_NO_PROBE"
       [] c = -6 -> "JTAG_CORE_NOT_FOUND"
       [] c = -7 -> "JTAG_CORE_CMD_NOT_FOUND"
       [] c = -8 -> "JTAG_CORE_INTERNAL_ERROR"
       [] c = -9 -> "JTAG_CORE_BAD_CMD"
       [] OTHER -> "JTAG_CORE_I2C_BUS_NOTFREE"]

\* ------------------------------------------------ 32-bit values, ctypes
\* An unsigned 32-bit value is the pair of its 16-bit halves.
U32(hi, lo) == [hi |-> hi, lo |-> lo]

\* A native function called through ctypes without a declared restype returns
\* a C int: the 32 bits read as a signed value.
AsCInt(u) == IF u.hi >= 32768 THEN (u.hi - 65536) * 65536 + u.lo
             ELSE u.hi * 65536 + u.lo

\* The unsigned 32-bit value a non-negative Python int stands for.
PyToU32(r) == U32(r \div 65536, r % 65536)

\* ------------------------------------------------------- environment
\* The boards a probe can be wired to: the ID codes along the chain.
Boards == { << U32(43981, 1), U32(4660, 2), U32(32767, 65535) >>,
            << U32(32768, 1) >> }

\* The descriptor files on disk and the ID code each one identifies.
Files == {"chip_a.bsd", "chip_b.bsd"}
FileArgs == Files \cup {"missing.bsd"}
FileId(f) == IF f = "chip_a.bsd" THEN U32(4660, 2) ELSE U32(2989, 1)

\* Pin names of an attached descriptor, by pin id.
PinNameOf == << "PA9", "PA11", "PA12" >>
NameArgs == {"PA9", "NOPE"}

\* What the probe registry can enumerate: per driver, the instance names.
Registries == { << >>,
                << << "USB JLINK ARM", "FTDI" >> >>,
                << << "USB JLINK ARM", "USB JLINK ARM" >> >>,
                << << "FTDI" >>, << "USB JLINK ARM" >> >>,
                << << >>, << "FTDI" >> >> }

Devs == 0..(MaxDev - 1)
Pins == 0..(MaxPins - 1)
DevArgs == 0..MaxDev
Bit == {0, 1}

\* Statuses a native call can fail with for a reason outside its arguments.

VARIABLES jc, last, ndeinit, released
vars == << jc, last, ndeinit, released >>

\* --------------------------------------------- native context (engine)
NoProbe == -1

InitJc ==
  [ handle  |-> "live",
    probe   |-> NoProbe,
    scanned |-> FALSE,
    chain   |-> << >>,
    bsdl    |-> [d \in Devs |-> ""],
    mode    |-> [d \in Devs |-> 0],
    oe      |-> [d \in Devs |-> [p \in Pins |-> 0]],
    out     |-> [d \in Devs |-> [p \in Pins |-> 0]],
    inp     |-> [d \in Devs |-> [p \in Pins |-> 0]] ]

\* The result of a native call: its return value and the context after it.
Ret(rv, c) == [rv |-> rv, jc |-> c]

HasDev(c, d) == c.scanned /\ d \in Devs /\ d < Len(c.chain)
HasBsdl(c, d) == HasDev(c, d) /\ c.bsdl[d] # ""
HasPin(c, d, p) == HasBsdl(c, d) /\ p \in Pins

\* ------------------------------------------------- engine: registry
ProbeIdOf(drv, idx) == drv * 256 + idx

Enumerated(reg) ==
  UNION { { ProbeIdOf(drv - 1, idx - 1) : idx \in DOMAIN reg[drv] } : drv \in DOMAIN reg }

jtagcore_get_number_of_probes_drv(c, reg, f) ==
  IF f # 0 THEN Ret(f, c) ELSE Ret(Len(reg), c)

jtagcore_get_number_of_probes(c, reg, drv, f) ==
  IF f # 0 THEN Ret(f, c)
  ELSE IF drv + 1 \in DOMAIN reg THEN Ret(Len(reg[drv + 1]), c)
  ELSE Ret(JTAG_CORE_BAD_PARAMETER, c)

\* Fills the caller's buffer with the name; on failure the buffer is left as
\* the caller made it.
jtagcore_get_probe_name(c, reg, probeid, f) ==
  LET drv == probeid \div 256
      idx == probeid % 256
  IN IF f # 0 THEN [rv |-> f, name |-> ""]
     ELSE IF drv + 1 \in DOMAIN reg /\ idx + 1 \in DOMAIN reg[drv + 1]
          THEN [rv |-> JTAG_CORE_NO_ERROR, name |-> reg[drv + 1][idx + 1]]
          ELSE [rv |-> JTAG_CORE_BAD_PARAMETER, name |-> ""]

\* ------------------------------------------------- engine: session
jtagcore_select_and_open_probe(c, reg, probeid, claimed) ==
  IF probeid \notin Enumerated(reg) THEN Ret(JTAG_CORE_NOT_FOUND, c)
  ELSE IF claimed THEN Ret(JTAG_CORE_ACCESS_ERROR, c)
  ELSE Ret(JTAG_CORE_NO_ERROR, [InitJc EXCEPT !.probe = probeid])

\* Releases the transport and frees the context.  A second call on the same
\* handle reads freed memory: ub is what the build makes of it.
jtagcore_deinit(c, ub) ==
  IF c.handle = "live" THEN [c EXCEPT !.handle = "freed", !.probe = NoProbe]
  ELSE IF ub = "crash" THEN [c EXCEPT !.handle = "crashed"]
  ELSE c

jtagcore_set_logs_level(c, level) ==
  IF level \in 0..4 THEN Ret(JTAG_CORE_NO_ERROR, c)
  ELSE Ret(JTAG_CORE_BAD_PARAMETER, c)

\* ------------------------------------------------- engine: chain
jtagcore_scan_and_init_chain(c, board, f) ==
  IF c.probe = NoProbe THEN Ret(JTAG_CORE_NO_PROBE, c)
  ELSE IF f # 0 THEN Ret(f, c)
  ELSE Ret(JTAG_CORE_NO_ERROR,
           [InitJc EXCEPT !.probe = c.probe, !.scanned = TRUE,
                          !.chain = SubSeq(board, 1, IF Len(board) < MaxDev THEN Len(board) ELSE MaxDev)])

jtagcore_get_number_of_devices(c) ==
  IF c.scanned THEN Ret(Len(c.chain), c) ELSE Ret(JTAG_CORE_BAD_PARAMETER, c)

\* Returns the 32-bit word the engine hands back: the ID code, or the
\* BadParameter status as a 32-bit word.
jtagcore_get_dev_id(c, d) ==
  IF HasDev(c, d) THEN c.chain[d + 1] ELSE U32(65535, 65535)

\* ------------------------------------------------- engine: descriptors
jtagcore_loadbsdlfile(c, file, d) ==
  IF ~HasDev(c, d) THEN Ret(JTAG_CORE_BAD_PARAMETER, c)
  ELSE IF FileId(file) # c.chain[d + 1] THEN Ret(JTAG_CORE_NOT_FOUND, c)
  ELSE Ret(JTAG_CORE_NO_ERROR,
           [c EXCEPT !.bsdl[d] = file, !.mode[d] = 0,
                     !.oe[d] = [p \in Pins |-> 0],
                     !.out[d] = [p \in Pins |-> 0],
                     !.inp[d] = [p \in Pins |-> 0]])

jtagcore_get_bsdl_id(c, file) == FileId(file)

jtagcore_get_number_of_pins(c, d) ==
  IF HasBsdl(c, d) THEN Ret(MaxPins, c) ELSE Ret(JTAG_CORE_BAD_PARAMETER, c)

jtagcore_get_pin_id(c, d, name) ==
  IF ~HasBsdl(c, d) THEN Ret(JTAG_CORE_BAD_PARAMETER, c)
  ELSE IF \E p \in Pins : PinNameOf[p + 1] = name
       THEN Ret(CHOOSE p \in Pins : PinNameOf[p + 1] = name, c)
       ELSE Ret(JTAG_CORE_NOT_FOUND, c)

jtagcore_get_pin_properties(c, d, p) ==
  IF HasPin(c, d, p)
  THEN [rv |-> JTAG_CORE_NO_ERROR, name |-> PinNameOf[p + 1], pt |-> INPUT + OUTPUT + OE]
  ELSE [rv |-> JTAG_CORE_BAD_PARAMETER, name |-> "", pt |-> 0]

\* ------------------------------------------------- engine: boundary scan
jtagcore_get_pin_state(c, d, p, type) ==
  IF ~HasPin(c, d, p) THEN Ret(JTAG_CORE_BAD_PARAMETER, c)
  ELSE IF type = INPUT THEN Ret(c.inp[d][p], c)
  ELSE IF type = OUTPUT THEN Ret(c.out[d][p], c)
  ELSE IF type = OE THEN Ret(c.oe[d][p], c)
  ELSE Ret(JTAG_CORE_BAD_PARAMETER, c)

jtagcore_set_pin_state(c, d, p, type, state, f) ==
  IF ~HasPin(c, d, p) THEN Ret(JTAG_CORE_BAD_PARAMETER, c)
  ELSE IF f # 0 THEN Ret(f, c)
  ELSE IF type = OUTPUT
       THEN Ret(JTAG_CORE_NO_ERROR, [c EXCEPT !.out[d][p] = IF state # 0 THEN 1 ELSE 0])
  ELSE IF type = OE
       THEN Ret(JTAG_CORE_NO_ERROR, [c EXCEPT !.oe[d][p] = IF state # 0 THEN 1 ELSE 0])
  ELSE Ret(JTAG_CORE_BAD_PARAMETER, c)

jtagcore_set_scan_mode(c, d, scan_mode) ==
  IF ~HasBsdl(c, d) THEN Ret(JTAG_CORE_BAD_PARAMETER, c)
  ELSE IF scan_mode \notin {0, 1} THEN Ret(JTAG_CORE_BAD_PARAMETER, c)
  ELSE Ret(JTAG_CORE_NO_ERROR, [c EXCEPT !.mode[d] = scan_mode])

\* One shift cycle.  The output and output-enable cells are shifted out as
\* they are; unless write-only, the input cells take the captured pin levels:
\* a pin its own device drives reads back the driven value, any other pin
\* reads the level ext the board puts on it.
jtagcore_push_and_pop_chain(c, mode, ext, f) ==
  IF c.probe = NoProbe THEN Ret(JTAG_CORE_NO_PROBE, c)
  ELSE IF f # 0 THEN Ret(f, c)
  ELSE IF mode # 0 THEN Ret(JTAG_CORE_NO_ERROR, c)
  ELSE Ret(JTAG_CORE_NO_ERROR,
           [c EXCEPT !.inp = [d \in Devs |-> [p \in Pins |->
              IF ~HasBsdl(c, d) THEN c.inp[d][p]
              ELSE IF c.mode[d] = 1 /\ c.oe[d][p] = 1 THEN c.out[d][p]
              ELSE ext]]])

\* ------------------------------------------------------ Python values
\* An argument is written as Python writes it (its repr).
StateArgs == {"True", "1", "'high'", "False", "0", "'low'",
              "None", "-1", "'high-z'", "'bogus'"}
ModeArgs == {"'passive'", "'sample'", "'active'", "'extest'",
             "0", "1", "2", "None", "'bogus'"}
TypeArgs == {"input", "output", "oe", "bogus"}
LevelArgs == {0, 4, 5}
ProbeArgs == {1, 512}

\* A pin argument: a numeric pin id or a pin name.
PinById(p) == [str |-> FALSE, id |-> p, name |-> ""]
PinByName(n) == [str |-> TRUE, id |-> 0, name |-> n]
PinArgs == { PinById(p) : p \in 0..MaxPins } \cup { PinByName(n) : n \in NameArgs }

\* Where ctypes can have put a str it passes by reference (low 32 bits).
StrPtrs == {24576, 140736}

\* --------------------------------------------------- wrapper: helpers
\* One native call as the wrapper made it: function, two arguments, return.
Call(fn, a, b, rv) == [fn |-> fn, a |-> a, b |-> b, rv |-> rv]

\* How a method ends: the context, the native calls it made, the exception
\* it raised ("" for none) and the value it returned (0 for None).
Res(c, calls, exc, ret) == [jc |-> c, calls |-> calls, exc |-> exc, ret |-> ret]

\* r, then s started from r's context.
Then(r, s) == Res(s.jc, r.calls \o s.calls, s.exc, s.ret)

check_return(rv) ==
  IF rv >= 0 THEN ""
  ELSE IF rv \in DOMAIN error_codes THEN "IOError: Exception: " \o error_codes[rv]
  ELSE "KeyError"

RECURSIVE BitOr(_, _)
BitOr(a, b) ==
  IF a = 0 THEN b
  ELSE IF b = 0 THEN a
  ELSE (IF a % 2 = 1 \/ b % 2 = 1 THEN 1 ELSE 0) + 2 * BitOr(a \div 2, b \div 2)

\* ---------------------------------------------------- wrapper: methods
set_debug_level(c, level) ==
  LET n == jtagcore_set_logs_level(c, level)
  IN Res(n.jc, << Call("jtagcore_set_logs_level", level, 0, n.rv) >>, "", 0)

deinit(c, ub) ==
  Res(jtagcore_deinit(c, ub), << Call("jtagcore_deinit", 0, 0, 0) >>, "", 0)

\* The dict probes: a set of <<name, id>> with one pair per name.
DictPut(dict, k, v) == { e \in dict : e[1] # k } \cup { << k, v >> }

\* The inner loop of get_probe_names from probe_index on; acc is what the
\* method has done so far.
RECURSIVE probe_index_loop(_, _, _, _, _, _, _)
probe_index_loop(c, reg, probe_driver_id, probe_index, probe_indexes, fname, acc) ==
  IF probe_index >= probe_indexes THEN acc
  ELSE LET probeid == BitOr(probe_driver_id * 256, probe_index)
           n == jtagcore_get_probe_name(c, reg, probeid,
                   IF probeid \in fname THEN JTAG_CORE_IO_ERROR ELSE 0)
       IN probe_index_loop(c, reg, probe_driver_id, probe_index + 1, probe_indexes, fname,
              [acc EXCEPT !.calls = @ \o << Call("jtagcore_get_probe_name", probeid, 0, n.rv) >>,
                          !.probes = DictPut(@, n.name, probeid)])

RECURSIVE probe_driver_loop(_, _, _, _, _, _, _)
probe_driver_loop(c, reg, probe_driver_id, probe_driver_ids, fdrv, fname, acc) ==
  IF probe_driver_id >= probe_driver_ids THEN acc
  ELSE LET n == jtagcore_get_number_of_probes(c, reg, probe_driver_id,
                   IF probe_driver_id = fdrv THEN JTAG_CORE_IO_ERROR ELSE 0)
           acc1 == [acc EXCEPT !.calls = @ \o
                      << Call("jtagcore_get_number_of_probes", probe_driver_id, 0, n.rv) >>]
       IN IF check_return(n.rv) # ""
          THEN [acc1 EXCEPT !.exc = check_return(n.rv), !.probes = {}]
          ELSE probe_driver_loop(c, reg, probe_driver_id + 1, probe_driver_ids, fdrv, fname,
                 probe_index_loop(c, reg, probe_driver_id, 0, n.rv, fname, acc1))

\* Returns [calls, exc, probes]; probes is the dict returned ({} when raising).
get_probe_names(c, reg, ftop, fdrv, fname) ==
  LET n == jtagcore_get_number_of_probes_drv(c, reg, ftop)
      acc == [calls |-> << Call("jtagcore_get_number_of_probes_drv", 0, 0, n.rv) >>,
              exc |-> check_return(n.rv), probes |-> {}]
  IN IF acc.exc # "" THEN acc
     ELSE probe_driver_loop(c, reg, 0, n.rv, fdrv, fname, acc)

open_probe(c, reg, probeid, claimed) ==
  LET n == jtagcore_select_and_open_probe(c, reg, probeid, claimed)
  IN Res(n.jc, << Call("jtagcore_select_and_open_probe", probeid, 0, n.rv) >>,
         check_return(n.rv), 0)

scan_init_chain(c, board, f) ==
  LET n == jtagcore_scan_and_init_chain(c, board, f)
  IN Res(n.jc, << Call("jtagcore_scan_and_init_chain", 0, 0, n.rv) >>,
         check_return(n.rv), n.rv)

get_number_devices(c) ==
  LET n == jtagcore_get_number_of_devices(c)
  IN Res(n.jc, << Call("jtagcore_get_number_of_devices", 0, 0, n.rv) >>,
         check_return(n.rv), n.rv)

get_devid(c, device_number) ==
  LET rv == AsCInt(jtagcore_get_dev_id(c, device_number))
  IN Res(c, << Call("jtagcore_get_dev_id", device_number, 0, rv) >>, check_return(rv), rv)

bsdl_attach(c, filepath, device_number) ==
  IF filepath \notin Files THEN Res(c, << >>, "IOError: Check path", 0)
  ELSE LET n == jtagcore_loadbsdlfile(c, filepath, device_number)
       IN Res(n.jc, << Call("jtagcore_loadbsdlfile", device_number, 0, n.rv) >>,
              check_return(n.rv), 0)

bsdl_devid(c, filepath) ==
  IF filepath \notin Files THEN Res(c, << >>, "IOError: Check path", 0)
  ELSE LET rv == AsCInt(jtagcore_get_bsdl_id(c, filepath))
       IN Res(c, << Call("jtagcore_get_bsdl_id", 0, 0, rv) >>, check_return(rv), rv)

pins_get_number(c, device_number) ==
  LET n == jtagcore_get_number_of_pins(c, device_number)
  IN Res(n.jc, << Call("jtagcore_get_number_of_pins", device_number, 0, n.rv) >>,
         check_return(n.rv), n.rv)

pin_get_id(c, device_number, pinname) ==
  LET n == jtagcore_get_pin_id(c, device_number, pinname)
  IN Res(n.jc, << Call("jtagcore_get_pin_id", device_number, 0, n.rv) >>,
         check_return(n.rv), n.rv)

\* The first statement of pin_get_state and pin_set_state: a name is
\* converted to a pin id, a number is taken as it is.
resolve_pinid(c, device, pin) ==
  IF pin.str THEN pin_get_id(c, device, pin.name) ELSE Res(c, << >>, "", pin.id)

pin_get_state(c, device_number, pin, pintype) ==
  LET r == resolve_pinid(c, device_number, pin)
  IN IF r.exc # "" THEN r
     ELSE IF pintype \notin {"input", "output", "oe"}
          THEN Res(r.jc, r.calls, "ValueError", 0)
     ELSE LET t == IF pintype = "input" THEN INPUT
                   ELSE IF pintype = "output" THEN OUTPUT ELSE OE
              n == jtagcore_get_pin_state(r.jc, device_number, r.ret, t)
          IN Then(r, Res(n.jc, << Call("jtagcore_get_pin_state", r.ret, t, n.rv) >>,
                         check_return(n.rv), n.rv))

pin_get_properties(c, device_number, pin) ==
  IF pin.str THEN Res(c, << >>, "ValueError", 0)
  ELSE LET n == jtagcore_get_pin_properties(c, device_number, pin.id)
       IN Res(c, << Call("jtagcore_get_pin_properties", pin.id, 0, n.rv) >>,
              check_return(n.rv), IF n.rv < 0 THEN 0 ELSE n.pt)

\* scan without the check of the return value.
scan_unchecked(c, write_only, ext, f) ==
  LET mode == IF write_only THEN 1 ELSE 0
      n == jtagcore_push_and_pop_chain(c, mode, ext, f)
  IN Res(n.jc, << Call("jtagcore_push_and_pop_chain", mode, 0, n.rv) >>, "", 0)

scan(c, write_only, ext, f) ==
  LET mode == IF write_only THEN 1 ELSE 0
      n == jtagcore_push_and_pop_chain(c, mode, ext, f)
  IN Res(n.jc, << Call("jtagcore_push_and_pop_chain", mode, 0, n.rv) >>,
         check_return(n.rv), 0)

\* The trailing scan with the scan_now test left out.
scan_if_always(r, scan_now, ext, f) ==
  IF r.exc = "" THEN Then(r, scan(r.jc, FALSE, ext, f)) ELSE r

\* The scan a method ends with when scan_now is set.
scan_if(r, scan_now, ext, f) ==
  IF r.exc = "" /\ scan_now THEN Then(r, scan(r.jc, FALSE, ext, f)) ELSE r

\* The two writes with the first check left out: the second write is issued
\* whatever the first returned.
set_oe_then_output_unchecked(c, device, pinid, oeval, outval, f1, f2) ==
  LET n1 == jtagcore_set_pin_state(c, device, pinid, OE, oeval, f1)
      r1 == Res(n1.jc, << Call("jtagcore_set_pin_state", OE, oeval, n1.rv) >>, "", 0)
      n2 == jtagcore_set_pin_state(n1.jc, device, pinid, OUTPUT, outval, f2)
      r2 == Res(n2.jc, << Call("jtagcore_set_pin_state", OUTPUT, outval, n2.rv) >>,
                check_return(n2.rv), 0)
  IN Then(r1, r2)

\* One branch of pin_set_state: the output-enable write, its check, the
\* output write, its check.
set_oe_then_output(c, device, pinid, oeval, outval, f1, f2) ==
  LET n1 == jtagcore_set_pin_state(c, device, pinid, OE, oeval, f1)
      r1 == Res(n1.jc, << Call("jtagcore_set_pin_state", OE, oeval, n1.rv) >>,
                check_return(n1.rv), 0)
      n2 == jtagcore_set_pin_state(n1.jc, device, pinid, OUTPUT, outval, f2)
      r2 == Res(n2.jc, << Call("jtagcore_set_pin_state", OUTPUT, outval, n2.rv) >>,
                check_return(n2.rv), 0)
  IN IF r1.exc # "" THEN r1 ELSE Then(r1, r2)

\* The branches with the high-impedance one copied from the low one
\* unchanged: output-enable stays 1.
pin_set_branch_hiz_driven(c, device, pinid, state, f1, f2) ==
  IF state \in {"True", "1", "'high'"}
  THEN set_oe_then_output(c, device, pinid, 1, 1, f1, f2)
  ELSE IF state \in {"False", "0", "'low'"}
  THEN set_oe_then_output(c, device, pinid, 1, 0, f1, f2)
  ELSE IF state \in {"None", "-1", "'high-z'"}
  THEN set_oe_then_output(c, device, pinid, 1, 0, f1, f2)
  ELSE Res(c, << >>, "ValueError", 0)

pin_set_branch(c, device, pinid, state, f1, f2) ==
  IF state \in {"True", "1", "'high'"}
  THEN set_oe_then_output(c, device, pinid, 1, 1, f1, f2)
  ELSE IF state \in {"False", "0", "'low'"}
  THEN set_oe_then_output(c, device, pinid, 1, 0, f1, f2)
  ELSE IF state \in {"None", "-1", "'high-z'"}
  THEN set_oe_then_output(c, device, pinid, 0, 0, f1, f2)
  ELSE Res(c, << >>, "ValueError", 0)

pin_set_state(c, device, pin, state, scan_now, f1, f2, ext, fs) ==
  LET r == resolve_pinid(c, device, pin)
  IN IF r.exc # "" THEN r
     ELSE scan_if(Then(r, pin_set_branch(r.jc, device, r.ret, state, f1, f2)),
                  scan_now, ext, fs)

\* The value set_scan_mode passes on: the names become 0 or 1, anything
\* else goes to the native call as ctypes converts it (an int as itself,
\* None as a null pointer, a str as the address ptr of its buffer).
mode_value(mode, ptr) ==
  IF mode \in {"'passive'", "'sample'"} THEN 0
  ELSE IF mode \in {"'active'", "'extest'"} THEN 1
  ELSE IF mode = "0" THEN 0
  ELSE IF mode = "1" THEN 1
  ELSE IF mode = "2" THEN 2
  ELSE IF mode = "None" THEN 0
  ELSE ptr

\* set_scan_mode that also releases pin 0 when it goes to passive.
set_scan_mode_releasing(c, device_number, mode, scan_now, ptr, ext, fs) ==
  LET m == mode_value(mode, ptr)
      n == jtagcore_set_scan_mode(c, device_number, m)
      w == jtagcore_set_pin_state(n.jc, device_number, 0, OE, 0, 0)
      r == Res(n.jc, << Call("jtagcore_set_scan_mode", device_number, m, n.rv) >>,
               check_return(n.rv), 0)
  IN scan_if(IF r.exc = "" /\ m = 0
             THEN Then(r, Res(w.jc, << Call("jtagcore_set_pin_state", OE, 0, w.rv) >>,
                              check_return(w.rv), 0))
             ELSE r,
             scan_now, ext, fs)

set_scan_mode(c, device_number, mode, scan_now, ptr, ext, fs) ==
  LET m == mode_value(mode, ptr)
      n == jtagcore_set_scan_mode(c, device_number, m)
  IN scan_if(Res(n.jc, << Call("jtagcore_set_scan_mode", device_number, m, n.rv) >>,
                 check_return(n.rv), 0),
             scan_now, ext, fs)

\* ------------------------------------------------------------- actions
\* What can happen around a method that writes and then scans: whether
\* scan_now is set, which native call fails (0 none, 1 the first write, 2 the
\* second write, 3 the scan) and the level ext the scan reads.  A failing
\* call is followed with scan_now set, where it decides more.
SetInputs ==
  { i \in [now : BOOLEAN, fault : 0..3, ext : Bit] :
      /\ (i.fault # 0 => i.now)
      /\ (i.ext = 1 => i.now /\ i.fault = 0) }

\* What the last method call was and how it ended.
NoPin == PinById(0)

\* The pins a call can name on device d: every pin argument when d has a
\* descriptor, one pin id when it has none (the call fails on the device).
PinArgsOf(d) == IF HasBsdl(jc, d) THEN PinArgs ELSE {PinById(0)}

\* pin names a pin of device d.
ValidPin(d, pin) ==
  /\ HasBsdl(jc, d)
  /\ IF pin.str THEN \E p \in Pins : PinNameOf[p + 1] = pin.name ELSE pin.id \in Pins

\* The state and mode arguments a call is followed with: all of them on a
\* pin or device the call can act on, two of them where it fails on its target.
StateArgsOf(d, pin) == IF ValidPin(d, pin) THEN StateArgs ELSE {"'high'", "'bogus'"}
ModeArgsOf(d) == IF HasBsdl(jc, d) THEN ModeArgs ELSE {"'active'", "2"}
NoReg == << >>

Op(op, dev, pin, arg, now, calls, exc, ret, probes, reg) ==
  [op |-> op, dev |-> dev, pin |-> pin, arg |-> arg, now |-> now,
   calls |-> calls, exc |-> exc, ret |-> ret, probes |-> probes, reg |-> reg]

\* A method ended as r: the context and the record of the call.
Ends(op, dev, pin, arg, now, r) ==
  /\ jc' = r.jc
  /\ last' = Op(op, dev, pin, arg, now, r.calls, r.exc, r.ret, {}, NoReg)
  /\ UNCHANGED << ndeinit, released >>

\* The object is usable: constructed and not closed.  After deinit() only
\* further deinit() calls are followed: any other method would hand the freed
\* handle to the library.
Live == jc.handle = "live"

\* Transport releases after one more jtagcore_deinit on the handle.
releases_after(c, n, ub) ==
  IF c.handle = "live" \/ ub = "again" THEN n + 1 ELSE n

Init ==
  /\ jc = InitJc
  /\ last = Op("__init__", 0, NoPin, "", FALSE,
               << Call("jtagcore_init", 0, 0, 0),
                  Call("jtagcore_set_logs_callback", 0, 0, 0) >>, "", 0, {}, NoReg)
  /\ ndeinit = 0
  /\ released = 0

DoSetDebugLevel ==
  /\ Live
  /\ \E level \in LevelArgs :
       \E r \in {set_debug_level(jc, level)} :
            Ends("set_debug_level", 0, NoPin, ToString(level), FALSE, r)

DoDeinit ==
  /\ jc.handle # "crashed"
  /\ ndeinit < MaxDeinit
  /\ \E ub \in {"noop", "again", "crash"} :
       LET r == deinit(jc, ub)
       IN /\ jc' = r.jc
          /\ last' = Op("deinit", 0, NoPin, "", FALSE, r.calls, r.exc, r.ret, {}, NoReg)
          /\ ndeinit' = ndeinit + 1
          /\ released' = releases_after(jc, released, ub)

DoGetProbeNames ==
  /\ Live
  /\ \E reg \in Registries, ftop \in {0, JTAG_CORE_IO_ERROR},
        fdrv \in {-1, 0, 1}, fname \in SUBSET {0, 1} :
       LET r == get_probe_names(jc, reg, ftop, fdrv, fname)
       IN /\ last' = Op("get_probe_names", 0, NoPin, "", FALSE,
                        r.calls, r.exc, 0, r.probes, reg)
          /\ UNCHANGED << jc, ndeinit, released >>

DoOpenProbe ==
  /\ Live
  /\ \E reg \in Registries, probeid \in ProbeArgs, claimed \in BOOLEAN :
       \E r \in {open_probe(jc, reg, probeid, claimed)} :
            Ends("open_probe", 0, NoPin, ToString(probeid), FALSE, r)

DoScanInitChain ==
  /\ Live
  /\ \E board \in Boards, f \in {0, JTAG_CORE_IO_ERROR} :
       \E r \in {scan_init_chain(jc, board, f)} :
            Ends("scan_init_chain", 0, NoPin, "", FALSE, r)

DoGetNumberDevices ==
  /\ Live
  /\ \E r \in {get_number_devices(jc)} :
            Ends("get_number_devices", 0, NoPin, "", FALSE, r)

DoGetDevid ==
  /\ Live
  /\ \E d \in DevArgs : \E r \in {get_devid(jc, d)} :
            Ends("get_devid", d, NoPin, "", FALSE, r)

DoBsdlAttach ==
  /\ Live
  /\ \E file \in FileArgs, d \in DevArgs :
       \E r \in {bsdl_attach(jc, file, d)} :
            Ends("bsdl_attach", d, NoPin, file, FALSE, r)

DoBsdlDevid ==
  /\ Live
  /\ \E file \in FileArgs : \E r \in {bsdl_devid(jc, file)} :
            Ends("bsdl_devid", 0, NoPin, file, FALSE, r)

DoPinsGetNumber ==
  /\ Live
  /\ \E d \in DevArgs : \E r \in {pins_get_number(jc, d)} :
            Ends("pins_get_number", d, NoPin, "", FALSE, r)

DoPinGetId ==
  /\ Live
  /\ \E d \in DevArgs, n \in NameArgs :
       \E r \in {pin_get_id(jc, d, n)} :
            Ends("pin_get_id", d, PinByName(n), "", FALSE, r)

DoPinGetState ==
  /\ Live
  /\ \E d \in DevArgs, t \in TypeArgs : \E pin \in PinArgsOf(d) :
       \E r \in {pin_get_state(jc, d, pin, t)} :
            Ends("pin_get_state", d, pin, t, FALSE, r)

DoPinGetProperties ==
  /\ Live
  /\ \E d \in DevArgs : \E pin \in PinArgsOf(d) \cup {PinByName("PA9")} :
       \E r \in {pin_get_properties(jc, d, pin)} :
            Ends("pin_get_properties", d, pin, "", FALSE, r)

DoPinSetState ==
  /\ Live
  /\ \E d \in DevArgs, i \in SetInputs :
     \E pin \in PinArgsOf(d) :
     \E state \in StateArgsOf(d, pin) :
     \E r \in {pin_set_state(jc, d, pin, state, i.now,
                              IF i.fault = 1 THEN JTAG_CORE_INTERNAL_ERROR ELSE 0,
                              IF i.fault = 2 THEN JTAG_CORE_MEM_ERROR ELSE 0,
                              i.ext,
                              IF i.fault = 3 THEN JTAG_CORE_IO_ERROR ELSE 0)} :
       Ends("pin_set_state", d, pin, state, i.now, r)

DoSetScanMode ==
  /\ Live
  /\ \E d \in DevArgs, ptr \in StrPtrs, i \in SetInputs :
     \E mode \in ModeArgsOf(d) :
       /\ i.fault \in {0, 3}
       /\ (mode # "'bogus'" => ptr = 24576)
       /\ \E r \in {set_scan_mode(jc, d, mode, i.now, ptr, i.ext,
                                  IF i.fault = 3 THEN JTAG_CORE_IO_ERROR ELSE 0)} :
            Ends("set_scan_mode", d, NoPin, mode, i.now, r)

DoScan ==
  /\ Live
  /\ \E write_only \in BOOLEAN, ext \in Bit, f \in {0, JTAG_CORE_IO_ERROR} :
       /\ (ext = 1 => f = 0 /\ ~write_only)
       /\ \E r \in {scan(jc, write_only, ext, f)} :
            Ends("scan", 0, NoPin, IF write_only THEN "True" ELSE "False", FALSE, r)

Next ==
  \/ DoSetDebugLevel
  \/ DoDeinit
  \/ DoGetProbeNames
  \/ DoOpenProbe
  \/ DoScanInitChain
  \/ DoGetNumberDevices
  \/ DoGetDevid
  \/ DoBsdlAttach
  \/ DoBsdlDevid
  \/ DoPinsGetNumber
  \/ DoPinGetId
  \/ DoPinGetState
  \/ DoPinGetProperties
  \/ DoPinSetState
  \/ DoSetScanMode
  \/ DoScan

Spec == Init /\ [][Next]_vars

\* The methods that set up a session and work on pin state.
NextPins ==
  \/ DoOpenProbe
  \/ DoScanInitChain
  \/ DoBsdlAttach
  \/ DoPinGetState
  \/ DoPinSetState
  \/ DoSetScanMode
  \/ DoScan

SpecPins == Init /\ [][NextPins]_vars

\* ------------------------------------------------------------- claims
\* The native calls of the last method that went to fn, in order.
CallsTo(fn) == SelectSeq(last.calls, LAMBDA x : x.fn = fn)
Writes == CallsTo("jtagcore_set_pin_state")
Shifts == CallsTo("jtagcore_push_and_pop_chain")
Failed(x) == x.rv < 0

\* The pin id the last pin method worked on.
TargetPin == IF last.pin.str THEN last.calls[1].rv ELSE last.pin.id

\* The IOError text for a status.
Raised(rv) == "IOError: Exception: " \o error_codes[rv]

\* (output-enable, output) the claims give for a state argument.
ClaimedImage(state) ==
  IF state \in {"True", "1", "'high'"} THEN << 1, 1 >>
  ELSE IF state \in {"False", "0", "'low'"} THEN << 1, 0 >>
  ELSE << 0, 0 >>

\* (output-enable, output) as pin_get_state returns them from context c.
ReadBack(c, d, pin) ==
  << pin_get_state(c, d, pin, "oe").ret, pin_get_state(c, d, pin, "output").ret >>

C2_ScanWithoutProbe ==
  [][ (last'.op = "scan" /\ jc.probe = NoProbe)
        => /\ last'.exc = Raised(JTAG_CORE_NO_PROBE)
           /\ jc'.inp = jc.inp /\ jc'.out = jc.out /\ jc'.oe = jc.oe
    ]_vars

C2_Witness ==
  /\ last.op = "scan" /\ last.arg = "True"
  /\ jc.probe = NoProbe
  /\ last.exc = Raised(JTAG_CORE_NO_PROBE)

\* C3: get_devid(d) on a discovered device returns the device's 32-bit ID
\* code and does not raise, whatever the ID code is.
C3_DevidReturned ==
  (last.op = "get_devid" /\ HasDev(jc, last.dev))
    => /\ last.exc = ""
       /\ last.ret >= 0
       /\ PyToU32(last.ret) = jc.chain[last.dev + 1]

\* C4: whenever a native call made by a method returns a negative status,
\* the method raises the error that names that status.
C4_FailurePropagates ==
  \A i \in DOMAIN last.calls :
    (last.calls[i].rv \in -10..-1) => last.exc = Raised(last.calls[i].rv)

\* C5: the transport is released once: a deinit() after the first is a no-op
\* (it makes no native call on the closed handle), releases nothing again and
\* does not fail.
C5_DeinitIdempotent ==
  /\ released <= 1
  /\ jc.handle # "crashed"
  /\ (last.op = "deinit" /\ ndeinit > 1) => last.calls = << >>

\* C6: get_probe_names, when every native call succeeds, returns one entry
\* for each enumerated probe instance, mapped to (driverIndex << 8) |
\* instanceIndex, and no two instances are collapsed into one entry.
C6_OneEntryPerProbe ==
  (last.op = "get_probe_names" /\ \A i \in DOMAIN last.calls : ~Failed(last.calls[i]))
    => /\ { e[2] : e \in last.probes } = Enumerated(last.reg)
       /\ Cardinality(last.probes) = Cardinality(Enumerated(last.reg))

\* C7: pin_set_state writes output-enable first and checks it before writing
\* the output value.  When the first write fails the second is not issued and
\* nothing is scanned; when the second fails the image keeps the
\* output-enable the first wrote, the error is raised and nothing is scanned,
\* scan_now set or not.
C7_WritesCheckedInOrder ==
  last.op = "pin_set_state" =>
    /\ Len(Writes) <= 2
    /\ Len(Writes) >= 1 => Writes[1].a = OE
    /\ (Len(Writes) >= 1 /\ Failed(Writes[1]))
         => /\ Len(Writes) = 1
            /\ Shifts = << >>
            /\ last.exc = Raised(Writes[1].rv)
    /\ Len(Writes) = 2
         => /\ Writes[2].a = OUTPUT
            /\ Failed(Writes[2])
                 => /\ jc.oe[last.dev][TargetPin] = Writes[1].b
                    /\ last.exc = Raised(Writes[2].rv)
                    /\ Shifts = << >>

C7_Witness ==
  /\ last.op = "pin_set_state" /\ last.now
  /\ Len(Writes) = 2 /\ Failed(Writes[2])
  /\ jc.oe[last.dev][TargetPin] = 1
  /\ jc.out[last.dev][TargetPin] = 0
  /\ last.arg = "'high'"

\* C8: set_scan_mode leaves the output and output-enable image of every
\* device and pin as it was; beyond the mode, the context changes only by
\* the scan the method triggers.
C8_ModeKeepsLatchedOutputs ==
  [][ last'.op = "set_scan_mode"
        => /\ jc'.out = jc.out
           /\ jc'.oe = jc.oe
           /\ [jc' EXCEPT !.mode = jc.mode, !.inp = jc.inp] = jc
           /\ (jc'.inp # jc.inp =>
                 \E i \in DOMAIN last'.calls :
                   last'.calls[i].fn = "jtagcore_push_and_pop_chain")
    ]_vars

C8_Witness ==
  /\ last.op = "set_scan_mode" /\ last.exc = "" /\ last.now
  /\ HasPin(jc, last.dev, 0)
  /\ jc.mode[last.dev] = 1
  /\ jc.oe[last.dev][0] = 1 /\ jc.out[last.dev][0] = 1
  /\ jc.inp[last.dev][0] = 1

\* C9: only scan() shifts the chain.  pin_get_state never does; pin_set_state
\* and set_scan_mode do not without scan_now, and with scan_now they shift
\* once, as their last native call, exactly when everything before it
\* succeeded.
C9_ShiftOnlyInScan ==
  /\ last.op = "scan" => Len(Shifts) = 1 /\ Len(last.calls) = 1
  /\ last.op \notin {"scan", "pin_set_state", "set_scan_mode"} => Shifts = << >>
  /\ (last.op \in {"pin_set_state", "set_scan_mode"} /\ ~last.now) => Shifts = << >>
  /\ (last.op \in {"pin_set_state", "set_scan_mode"} /\ last.now)
       => /\ Len(Shifts) <= 1
          /\ Len(Shifts) = 1
               <=> /\ last.exc # "ValueError"
                   /\ \A i \in DOMAIN last.calls :
                        (Failed(last.calls[i]) =>
                           last.calls[i].fn = "jtagcore_push_and_pop_chain")
          /\ Len(Shifts) = 1
               => last.calls[Len(last.calls)].fn = "jtagcore_push_and_pop_chain"

C9_Witness ==
  /\ last.op = "pin_set_state" /\ last.now /\ last.exc = ""
  /\ Len(last.calls) = 4
  /\ Len(Shifts) = 1
  /\ Len(Writes) = 2

\* C10: only the mode values 0 (passive) and 1 (active) reach the engine, and
\* a call that passes any other mode argument than "passive", "sample",
\* "active" or "extest" is rejected: it raises, and nothing is scanned.
C10_OnlyPassiveOrActive ==
  last.op = "set_scan_mode" =>
    /\ \A i \in DOMAIN last.calls :
         last.calls[i].fn = "jtagcore_set_scan_mode" => last.calls[i].b \in {0, 1}
    /\ last.arg \notin {"'passive'", "'sample'", "'active'", "'extest'"}
         => last.exc # "" /\ Shifts = << >>

====
